---- MODULE Spec2Model ----
(***************************************************************************)
(* A model of the InnLab launcher: the legacy launch_game workflow of      *)
(* src/src/launcher.py (session gate, install steps, command construction, *)
(* child process, output drain, finally block), the GUI entry              *)
(* ModpackCard.launch_minecraft of src/src/main.py that starts launcher    *)
(* processes, ensure_customskinloader file by file, and the config store   *)
(* ConfigManager.load_config of src/src/main.py with the launch options    *)
(* launch_game builds from it.                                             *)
(***************************************************************************)
EXTENDS Integers, Sequences, FiniteSets

(* How many launch_game calls Spec and SpecGui follow. *)
MaxCalls == 2

(* How many overlapping launch_game calls SpecOverlap follows. *)
OverlapCalls == 3

Calls == 1..(IF MaxCalls > OverlapCalls THEN MaxCalls ELSE OverlapCalls)

(* None for a process handle, "nobody" for a lock holder, "no process" for proc. *)
None == 0

VARIABLES
    pc,               \* pc[c]: where call c of launch_game stands
    proc,             \* proc[c]: the launcher process call c runs in (its main call's id)
    is_game_running,  \* is_game_running[p]: the module global of launcher process p
    game_process,     \* game_process[p]: the module global of launcher process p
    game_lock,        \* game_lock[p]: the call holding process p's game_lock, or None
    registry,         \* what the remote Fabric registry answers
    fabric_loader,    \* fabric_loader[c]: the local of call c ("" before line 230)
    command,          \* command[c]: the local of call c: which command was built
    child,            \* child[c]: the game child process spawned by call c
    result,           \* result[c]: how the try block of call c ended
    exit_status,      \* exit_status[p]: exit status of launcher process p, -1 while it runs
    fs,               \* the shared game directory "minecraft"
    remote_calls,     \* remote_calls[c]: the registry queries call c has made
    response,         \* the Modrinth answer: the list of version records
    mods,             \* mods[f]: what the file f of minecraft/mods holds
    requests,         \* the jar downloads requested so far, in order
    api_answers,      \* what the Modrinth query did in each run so far
    pipe,             \* pipe[c]: the lines of child c's output not read yet
    written,          \* written[c]: how many lines child c has written
    stdout_open,      \* stdout_open[c]: child c has not closed its output
    logf,             \* the lines appended to LOG_FILE, in order
    config_file,      \* what config.json holds
    config_data,      \* what ConfigManager.load_config did with it
    options,          \* the launch options built at lines 263-281
    saved,            \* what the last save_config call was given and did
    outcomes,         \* what each step of LauncherInitializer.initialize meets
    init_result       \* the init_result that initialize returned

(* The state of the launch workflow. *)
launcher_vars == <<pc, proc, is_game_running, game_process, game_lock, registry,
                   fabric_loader, command, child, result, exit_status, fs,
                   remote_calls>>

(* The state ensure_customskinloader works on, file by file. *)
skin_vars == <<response, mods, requests, api_answers>>

(* The state of the output drain. *)
drain_vars == <<pipe, written, stdout_open, logf>>

(* The state of the config store. *)
config_vars == <<config_file, config_data, options, saved>>

(* The state of the launcher initialization. *)
init_vars == <<outcomes, init_result>>

vars == <<launcher_vars, skin_vars, drain_vars, config_vars, init_vars>>

(***************************************************************************)
(* Program constants of launcher.py.                                       *)
(***************************************************************************)
FALLBACK_FABRIC_VERSIONS == <<"0.15.11", "0.15.10", "0.15.9", "0.15.7", "0.14.25">>

(* The exception classes a call into requests / minecraft_launcher_lib can *)
(* raise: the three network classes the code names, and any other          *)
(* Exception subclass.                                                     *)
NetworkErrors == {"SSLError", "ConnectionError", "Timeout"}
ExceptionKinds == NetworkErrors \cup {"Exception"}

(* A version the remote registry may report as the latest loader. *)
RemoteVersions == {"0.16.14"}

(* The answers of mclib.fabric.get_latest_loader_version. *)
RemoteAnswers ==
    [ok : {TRUE}, value : RemoteVersions, exc : {"none"}]
    \cup [ok : {FALSE}, value : {""}, exc : ExceptionKinds]

(***************************************************************************)
(* get_fabric_loader_version_safe (launcher.py 171-203).  The result is    *)
(* [raised, value]: raised when an exception leaves the function.          *)
(***************************************************************************)
ResolverCatchesNetworkOnly(exc) == exc \in NetworkErrors

(* except (SSLError, ConnectionError, Timeout, Exception), lines 187-188. *)
ResolverCatches(exc) == exc \in NetworkErrors \cup {"Exception"}

FallbackLoopReturnsNothing(versions) == [raised |-> FALSE, value |-> ""]

(* The loop "for version in FALLBACK_FABRIC_VERSIONS: return version", then *)
(* FALLBACK_FABRIC_VERSIONS[0] after the loop (an IndexError on an empty list). *)
FallbackLoop(versions) ==
    IF Len(versions) > 0 THEN [raised |-> FALSE, value |-> versions[1]]
    ELSE [raised |-> TRUE, value |-> ""]

RemoteAttemptsRetryOnFailure(remote) == IF remote.ok THEN 1 ELSE 2

(* How many times one invocation calls mclib.fabric.get_latest_loader_version: *)
(* once, at line 184, in a try with no loop around it; the except branch     *)
(* (lines 187-203) reads FALLBACK_FABRIC_VERSIONS only.                      *)
RemoteAttempts(remote) == 1

get_fabric_loader_version_safe(remote) ==
    IF remote.ok THEN [raised |-> FALSE, value |-> remote.value]
    ELSE IF ResolverCatches(remote.exc) THEN FallbackLoop(FALLBACK_FABRIC_VERSIONS)
    ELSE [raised |-> TRUE, value |-> ""]

(***************************************************************************)
(* State.                                                                  *)
(***************************************************************************)
NoChild == [state |-> "none", argv |-> "none"]

EmptyDir == [jar |-> "absent", installed |-> {}]

(***************************************************************************)
(* The Modrinth answer ensure_customskinloader reads (lines 151-156): a     *)
(* list of version records {game_versions, loaders, files}, a file being    *)
(* known by its filename, here [stem, ext].                                 *)
(***************************************************************************)
MINECRAFT_VERSION == "1.20.1"
LOADER == "fabric"

(* How many version records a Modrinth answer holds at most. *)
MaxRecords == 2

(* How many runs of ensure_customskinloader SpecSkin follows. *)
MaxSkinRuns == 2

NoFile == [stem |-> "", ext |-> ""]

JarOld == [stem |-> "CustomSkinLoader_Fabric-14.19", ext |-> "jar"]
JarNew == [stem |-> "CustomSkinLoader_Fabric-14.20", ext |-> "jar"]
Sources == [stem |-> "CustomSkinLoader-sources", ext |-> "zip"]

Filenames == {JarOld, JarNew, Sources}

(* The files lists of the version records. *)
FileLists ==
    {<<Sources>>, <<JarNew>>, <<Sources, JarOld>>, <<JarNew, JarOld>>}

(* The game versions and loaders of the version records. *)
Tags ==
    {[game_versions |-> <<"1.19.4", "1.20.1">>, loaders |-> <<"fabric", "quilt">>],
     [game_versions |-> <<"1.20.1">>, loaders |-> <<"forge">>],
     [game_versions |-> <<"1.19.4">>, loaders |-> <<"fabric">>]}

VersionRecords ==
    {[game_versions |-> t.game_versions, loaders |-> t.loaders, files |-> fl] :
        t \in Tags, fl \in FileLists}

Responses == UNION {[1..n -> VersionRecords] : n \in 0..MaxRecords}

(* What a file of minecraft/mods holds. *)
Contents == {"absent", "artifact", "error_body"}

NoMods == [f \in Filenames |-> "absent"]

(***************************************************************************)
(* The output of a game child process: the lines it writes are numbered     *)
(* 1, 2, ... in the order it writes them.                                   *)
(***************************************************************************)
(* How many lines a child process writes at most. *)
MaxLines == 2

(***************************************************************************)
(* config.json and the values json.load makes of it.  A value is [t, n, s]: *)
(* its Python type t, its number n (a float stands for n + 0.5, a bool for  *)
(* 0 or 1) and, for a str, its characters s.                                *)
(***************************************************************************)
JInt(n) == [t |-> "int", n |-> n, s |-> <<>>]
JFloat(n) == [t |-> "float", n |-> n, s |-> <<>>]
JBool(b) == [t |-> "bool", n |-> IF b THEN 1 ELSE 0, s |-> <<>>]
JStr(s) == [t |-> "str", n |-> 0, s |-> s]
JInf == [t |-> "inf", n |-> 0, s |-> <<>>]
JNaN == [t |-> "nan", n |-> 0, s |-> <<>>]
JNull == [t |-> "null", n |-> 0, s |-> <<>>]

(* A lone surrogate, the character "\ud800" of a JSON text. *)
Surrogate == "U+D800"

(* The key is not in the object. *)
Absent == [t |-> "absent", n |-> 0, s |-> <<>>]

(* USERNAME and MEMORY_GB of launcher.py. *)
USERNAME == <<"T", "h", "e", "D", "o", "c", "i", "n", "g", "E", "a", "s", "t">>
MEMORY_GB == 4

(* ConfigManager.DEFAULT_CONFIG (main.py 27-36). *)
DEFAULT_CONFIG ==
    [ram |-> JInt(4),
     skin |-> JStr(<<>>),
     nickname |-> JStr(<<"P", "l", "a", "y", "e", "r">>),
     theme |-> JStr(<<"d", "a", "r", "k">>),
     auto_update |-> JBool(TRUE),
     java_path |-> JStr(<<>>),
     window_width |-> JInt(1200),
     window_height |-> JInt(800)]

(* The keys a config.json object may hold: the schema, and one key outside it. *)
Keys == DOMAIN DEFAULT_CONFIG \cup {"language"}

(* How many keys a config.json object holds at most. *)
MaxKeys == 2

(* The values config.json may give each key. *)
FileValues ==
    [ram |-> {JInt(1), JInt(2), JInt(8), JInt(32), JInt(999), JFloat(2),
              JBool(TRUE), JInf, JStr(<<"8">>)},
     skin |-> {JStr(<<>>), JStr(<<"s", ".", "p", "n", "g">>), JInt(0)},
     nickname |-> {JStr(<<>>), JStr(<<" ">>), JStr(<<"S">>), JStr(<<" ", "S", " ">>),
                   JStr(<<"S", " ", "S">>), JStr(<<Surrogate>>), JInt(5)},
     theme |-> {JStr(<<>>), JStr(<<"l", "i", "g", "h", "t">>), JNull},
     auto_update |-> {JBool(FALSE), JInt(0)},
     java_path |-> {JStr(<<>>), JStr(<<"j", "a", "v", "a">>)},
     window_width |-> {JInt(500), JInt(1920), JFloat(800), JBool(TRUE), JInf, JNaN,
                       JStr(<<"w">>)},
     window_height |-> {JInt(720), JInf, JStr(<<"h">>)},
     language |-> {JStr(<<"r", "u">>)}]

(* The values of key k in the objects that hold the keys S. *)
Pick(k, S) == IF k \in S THEN FileValues[k] ELSE {Absent}

ConfigObjects ==
    UNION {[ram : Pick("ram", S), skin : Pick("skin", S),
            nickname : Pick("nickname", S), theme : Pick("theme", S),
            auto_update : Pick("auto_update", S), java_path : Pick("java_path", S),
            window_width : Pick("window_width", S),
            window_height : Pick("window_height", S),
            language : Pick("language", S)] :
               S \in {T \in SUBSET Keys : Cardinality(T) <= MaxKeys}}

NoKeys == [k \in Keys |-> Absent]

(* What config.json is: no such file, a file that cannot be opened, bytes   *)
(* that are not UTF-8, text that is not JSON, JSON that is not an object,   *)
(* or an object.                                                            *)
OtherFiles == {"missing", "unreadable", "undecodable", "not_json", "not_object"}

ConfigFiles ==
    {[kind |-> k, obj |-> NoKeys] : k \in OtherFiles}
    \cup {[kind |-> "object", obj |-> o] : o \in ConfigObjects}

(* load_config has not been called. *)
Unread == [state |-> "unread", exc |-> "none", value |-> DEFAULT_CONFIG]

(* The options dict has not been built. *)
NoOptions == [built |-> FALSE, username |-> <<>>, xmx |-> 0]

(* What the disk does to one save_config call: directory creation (line     *)
(* 115), open and write (lines 117-118), the skin copy (lines 122-126). A   *)
(* step that is not reached has outcome "not_reached"; "no_file" is a skin  *)
(* path that names no file.                                                 *)
Disks ==
    {[mkdir |-> "error", write |-> "not_reached", copy |-> "not_reached"]}
    \cup {[mkdir |-> "ok", write |-> w, copy |-> "not_reached"] :
              w \in {"open_error", "write_error"}}
    \cup {[mkdir |-> "ok", write |-> "ok", copy |-> c] :
              c \in {"no_file", "ok", "error"}}

(* What the steps of LauncherInitializer.initialize can meet (app_init.py): *)
(* ensure_launcher_directories returns True or False; the interpreter is    *)
(* 3.8+ or older; get_java_executable finds Java, finds none or raises;     *)
(* shutil.disk_usage and get_available_memory give a number of GB or raise; *)
(* config.json exists, is saved, is refused by the disk (save_config        *)
(* returns False) or the step raises; UpdateManager.check_for_updates gives *)
(* a dict with or without updates, an empty dict, or raises.                *)
Outcomes ==
    [directories : BOOLEAN, python_ok : BOOLEAN,
     java : {"found", "none", "raised"},
     disk : {[raised |-> TRUE, gb |-> 0]}
            \cup {[raised |-> FALSE, gb |-> g] : g \in {1, 3, 10}},
     memory : {[raised |-> TRUE, gb |-> 0]}
              \cup {[raised |-> FALSE, gb |-> g] : g \in {2, 8}},
     config : {"exists", "saved", "save_failed", "raised"},
     update : {"updates", "no_updates", "empty", "raised"}]

(* initialize has not returned. *)
NotInitialized ==
    [state |-> "none", success |-> TRUE, directories_created |-> FALSE,
     config_created |-> FALSE,
     system_validation |-> [valid |-> TRUE, errors |-> <<>>, warnings |-> <<>>],
     updates_checked |-> FALSE, errors |-> <<>>]

(* save_config has not been called. *)
NoSave ==
    [state |-> "none", config |-> DEFAULT_CONFIG,
     before |-> [kind |-> "missing", obj |-> NoKeys],
     disk |-> [mkdir |-> "not_reached", write |-> "not_reached",
               copy |-> "not_reached"],
     result |-> "none", skin_png |-> "none"]

(* The launch workflow before the Play button is pressed. *)
LauncherIdle ==
    /\ pc = [c \in Calls |-> "idle"]
    /\ proc = [c \in Calls |-> None]
    /\ is_game_running = [p \in Calls |-> FALSE]
    /\ game_process = [p \in Calls |-> None]
    /\ game_lock = [p \in Calls |-> None]
    /\ fabric_loader = [c \in Calls |-> ""]
    /\ command = [c \in Calls |-> "none"]
    /\ child = [c \in Calls |-> NoChild]
    /\ result = [c \in Calls |-> "none"]
    /\ exit_status = [p \in Calls |-> -1]
    /\ fs = EmptyDir
    /\ remote_calls = [c \in Calls |-> 0]

(* Nothing asked of Modrinth, an empty mods directory. *)
SkinIdle ==
    /\ response = <<>>
    /\ mods = NoMods
    /\ requests = <<>>
    /\ api_answers = <<>>

(* No child process has written anything. *)
DrainIdle ==
    /\ pipe = [c \in Calls |-> <<>>]
    /\ written = [c \in Calls |-> 0]
    /\ stdout_open = [c \in Calls |-> TRUE]
    /\ logf = <<>>

(* initialize has not been called, on a system where every step succeeds. *)
InitializerIdle ==
    /\ outcomes = [directories |-> TRUE, python_ok |-> TRUE, java |-> "found",
                   disk |-> [raised |-> FALSE, gb |-> 10],
                   memory |-> [raised |-> FALSE, gb |-> 8],
                   config |-> "exists", update |-> "no_updates"]
    /\ init_result = NotInitialized

(* No config.json, nothing loaded. *)
ConfigIdle ==
    /\ config_file = [kind |-> "missing", obj |-> NoKeys]
    /\ config_data = Unread
    /\ options = NoOptions
    /\ saved = NoSave
    /\ InitializerIdle

Init ==
    /\ LauncherIdle
    /\ registry \in RemoteAnswers
    /\ SkinIdle
    /\ DrainIdle
    /\ ConfigIdle

(* The launcher process of call c. *)
P(c) == proc[c]

(* Calls are told apart only by their numbers: they enter in that order. *)
InOrder(c) == IF c = 1 THEN TRUE ELSE pc[c - 1] # "idle"

(* The try block of call c ends: `how` is "busy" (return at line 211),      *)
(* "fatal" (raise e2 at line 313), "error" (any other exception, caught at  *)
(* line 333) or "ok" (the drain loop ended); the finally block is next.     *)
EndTry(c, how) ==
    /\ pc' = [pc EXCEPT ![c] = "finally"]
    /\ result' = [result EXCEPT ![c] = how]

(***************************************************************************)
(* ModpackCard.launch_minecraft (main.py 655-662): the Play button starts   *)
(* a new launcher process, whose module globals are fresh (launcher.py      *)
(* 138-140) and whose main() calls launch_game (launcher.py 340-344).       *)
(***************************************************************************)
launch_minecraft(c) ==
    /\ pc[c] = "idle"
    /\ InOrder(c)
    /\ \E launcher_exists \in BOOLEAN, spawned \in BOOLEAN :
         IF launcher_exists /\ spawned
         THEN /\ proc' = [proc EXCEPT ![c] = c]
              /\ pc' = [pc EXCEPT ![c] = "gate"]
         ELSE UNCHANGED <<pc, proc>>
    /\ UNCHANGED <<is_game_running, game_process, game_lock, registry,
                   fabric_loader, command, child, result, exit_status, fs>>
    /\ UNCHANGED <<remote_calls, skin_vars, drain_vars, config_vars, init_vars>>

(* launch_game entered by a further thread of a running launcher process p. *)
launch_game_enter(c) ==
    /\ pc[c] = "idle"
    /\ InOrder(c)
    /\ \E p \in Calls :
         /\ proc[p] = p
         /\ exit_status[p] = -1
         /\ proc' = [proc EXCEPT ![c] = p]
    /\ pc' = [pc EXCEPT ![c] = "gate"]
    /\ UNCHANGED <<is_game_running, game_process, game_lock, registry,
                   fabric_loader, command, child, result, exit_status, fs>>
    /\ UNCHANGED <<remote_calls, skin_vars, drain_vars, config_vars, init_vars>>

(***************************************************************************)
(* launch_game, lines 207-212: the session gate.                            *)
(***************************************************************************)
gate_acquire(c) ==
    /\ pc[c] = "gate"
    /\ game_lock[P(c)] = None
    /\ game_lock' = [game_lock EXCEPT ![P(c)] = c]
    /\ pc' = [pc EXCEPT ![c] = "gate_locked"]
    /\ UNCHANGED <<proc, is_game_running, game_process, registry,
                   fabric_loader, command, child, result, exit_status, fs>>
    /\ UNCHANGED <<remote_calls, skin_vars, drain_vars, config_vars, init_vars>>

gate_body(c) ==
    /\ pc[c] = "gate_locked"
    /\ game_lock' = [game_lock EXCEPT ![P(c)] = None]
    /\ IF is_game_running[P(c)]
       THEN /\ EndTry(c, "busy")
            /\ UNCHANGED is_game_running
       ELSE /\ is_game_running' = [is_game_running EXCEPT ![P(c)] = TRUE]
            /\ pc' = [pc EXCEPT ![c] = "skin"]
            /\ UNCHANGED result
    /\ UNCHANGED <<proc, game_process, registry, fabric_loader, command,
                   child, exit_status, fs>>
    /\ UNCHANGED <<remote_calls, skin_vars, drain_vars, config_vars, init_vars>>

(***************************************************************************)
(* ensure_customskinloader (lines 142-169), called at lines 215-218.        *)
(* answer: what the Modrinth query does; download: what the jar download    *)
(* does.  The download is written to the jar file without a status check    *)
(* (lines 160-162), so an HTTP error answer is written as the jar.          *)
(***************************************************************************)
SkinAnswers == {"makedirs_error", "api_error", "no_match", "match"}
Downloads == {"ok", "http_error", "exception"}

ensure_customskinloader(dir, answer, download) ==
    IF answer = "match" /\ dir.jar = "absent" /\ download # "exception"
    THEN [dir EXCEPT !.jar = IF download = "ok" THEN "artifact" ELSE "error_body"]
    ELSE dir

skin_step(c) ==
    /\ pc[c] = "skin"
    /\ \E answer \in SkinAnswers, download \in Downloads :
         fs' = ensure_customskinloader(fs, answer, download)
    /\ pc' = [pc EXCEPT ![c] = "resolve"]
    /\ UNCHANGED <<proc, is_game_running, game_process, game_lock, registry,
                   fabric_loader, command, child, result, exit_status>>
    /\ UNCHANGED <<remote_calls, skin_vars, drain_vars, config_vars, init_vars>>

(***************************************************************************)
(* ensure_customskinloader file by file (lines 142-169).                    *)
(***************************************************************************)
(* x in list *)
Contains(list, x) == \E i \in DOMAIN list : list[i] = x

(* file['filename'].endswith('.jar'), line 155 *)
EndsWithJar(file) == file.ext = "jar"

(* The loop of lines 154-166 from the i-th file on: the first file whose    *)
(* name ends in .jar, NoFile when the loop ends without one.                *)
RECURSIVE FirstJar(_, _)
FirstJar(files, i) ==
    IF i > Len(files) THEN NoFile
    ELSE IF EndsWithJar(files[i]) THEN files[i]
    ELSE FirstJar(files, i + 1)

RECURSIVE ScanVersionsStopsAtFirstMatch(_, _, _, _)
ScanVersionsStopsAtFirstMatch(list, i, mc_version, loader) ==
    IF i > Len(list) THEN NoFile
    ELSE IF Contains(list[i].game_versions, mc_version)
            /\ Contains(list[i].loaders, loader)
    THEN FirstJar(list[i].files, 1)
    ELSE ScanVersionsStopsAtFirstMatch(list, i + 1, mc_version, loader)

(* The loop of lines 152-166 from the i-th record on: the jar file the      *)
(* function settles on (it returns at line 166), NoFile when the loop ends. *)
RECURSIVE ScanVersions(_, _, _, _)
ScanVersions(list, i, mc_version, loader) ==
    IF i > Len(list) THEN NoFile
    ELSE IF Contains(list[i].game_versions, mc_version)
            /\ Contains(list[i].loaders, loader)
            /\ FirstJar(list[i].files, 1) # NoFile
    THEN FirstJar(list[i].files, 1)
    ELSE ScanVersions(list, i + 1, mc_version, loader)

IsFileNever(dir, file) == FALSE

(* os.path.isfile(jar_path), line 158 *)
IsFile(dir, file) == dir[file] # "absent"

(* What the Modrinth query does: os.makedirs raises (line 145), the query   *)
(* fails (lines 149-151, caught at line 168), or the list arrives.          *)
ApiAnswers == {"makedirs_error", "api_error", "listed"}

(* The mods directory after the call, and the download it asked for. *)
ensure_customskinloader_files(dir, list, mc_version, loader, api, download) ==
    LET jar == ScanVersions(list, 1, mc_version, loader) IN
    IF api # "listed" \/ jar = NoFile \/ IsFile(dir, jar)
    THEN [mods |-> dir, asked |-> <<>>]
    ELSE [mods |-> IF download = "exception" THEN dir
                   ELSE [dir EXCEPT ![jar] =
                            IF download = "ok" THEN "artifact" ELSE "error_body"],
          asked |-> <<jar>>]

(* One run of ensure_customskinloader for the launcher's version and loader. *)
ensure_run ==
    /\ Len(api_answers) < MaxSkinRuns
    /\ \E api \in ApiAnswers, download \in Downloads :
         LET r == ensure_customskinloader_files(mods, response, MINECRAFT_VERSION,
                                                LOADER, api, download) IN
           /\ mods' = r.mods
           /\ requests' = requests \o r.asked
           /\ api_answers' = Append(api_answers, api)
    /\ UNCHANGED <<response, launcher_vars, drain_vars, config_vars, init_vars>>

(***************************************************************************)
(* Lines 220-230: load_config (wrapped in its own try), then the loader     *)
(* version is resolved, outside any inner try.                              *)
(***************************************************************************)
resolve_step(c) ==
    /\ pc[c] = "resolve"
    /\ LET r == get_fabric_loader_version_safe(registry) IN
         IF r.raised
         THEN /\ EndTry(c, "error")
              /\ UNCHANGED fabric_loader
         ELSE /\ fabric_loader' = [fabric_loader EXCEPT ![c] = r.value]
              /\ pc' = [pc EXCEPT ![c] = "fabric"]
              /\ UNCHANGED result
    /\ remote_calls' = [remote_calls EXCEPT ![c] = @ + RemoteAttempts(registry)]
    /\ UNCHANGED <<proc, is_game_running, game_process, game_lock, registry,
                   command, child, exit_status, fs>>
    /\ UNCHANGED <<skin_vars, drain_vars, config_vars, init_vars>>

(***************************************************************************)
(* Lines 235-261: install_fabric and install_minecraft_version, each in a   *)
(* try with two handlers: the network classes, and Exception.               *)
(***************************************************************************)
InstallOutcomes == {"ok"} \cup ExceptionKinds

InstallCatchesNetworkOnly(exc) == exc \in NetworkErrors

InstallCatches(exc) == exc \in NetworkErrors \/ exc \in {"Exception"}

(* One install step of call c: artifact lands in the directory on success;  *)
(* a caught failure goes on to `next`, an uncaught one leaves the try block. *)
InstallStep(c, artifact, outcome, next) ==
    /\ fs' = IF outcome = "ok"
             THEN [fs EXCEPT !.installed = @ \cup {artifact}]
             ELSE fs
    /\ IF outcome = "ok" \/ InstallCatches(outcome)
       THEN /\ pc' = [pc EXCEPT ![c] = next]
            /\ UNCHANGED result
       ELSE EndTry(c, "error")

install_fabric_step(c) ==
    /\ pc[c] = "fabric"
    /\ \E outcome \in InstallOutcomes : InstallStep(c, "fabric", outcome, "mc")
    /\ UNCHANGED <<proc, is_game_running, game_process, game_lock, registry,
                   fabric_loader, command, child, exit_status>>
    /\ UNCHANGED <<remote_calls, skin_vars, drain_vars, config_vars, init_vars>>

install_minecraft_step(c) ==
    /\ pc[c] = "mc"
    /\ \E outcome \in InstallOutcomes :
         InstallStep(c, "fabric_version", outcome, "cmd")
    /\ UNCHANGED <<proc, is_game_running, game_process, game_lock, registry,
                   fabric_loader, command, child, exit_status>>
    /\ UNCHANGED <<remote_calls, skin_vars, drain_vars, config_vars, init_vars>>

(***************************************************************************)
(* Lines 263-313: the launch command.  The Fabric command first; when that  *)
(* raises, the vanilla version is installed and its command built; when     *)
(* either of those raises, the exception is raised again (line 313).        *)
(***************************************************************************)
AfterFabricCommandSkipsInstall(built) == IF built THEN "popen" ELSE "vanilla_cmd"

AfterFabricCommand(built) == IF built THEN "popen" ELSE "vanilla_install"

fabric_command_step(c) ==
    /\ pc[c] = "cmd"
    /\ \E built \in BOOLEAN :
         /\ pc' = [pc EXCEPT ![c] = AfterFabricCommand(built)]
         /\ command' = [command EXCEPT ![c] = IF built THEN "fabric" ELSE @]
    /\ UNCHANGED <<proc, is_game_running, game_process, game_lock, registry,
                   fabric_loader, child, result, exit_status, fs>>
    /\ UNCHANGED <<remote_calls, skin_vars, drain_vars, config_vars, init_vars>>

vanilla_install_step(c) ==
    /\ pc[c] = "vanilla_install"
    /\ \E outcome \in InstallOutcomes :
         /\ fs' = IF outcome = "ok"
                  THEN [fs EXCEPT !.installed = @ \cup {"vanilla"}]
                  ELSE fs
         /\ IF outcome = "ok"
            THEN /\ pc' = [pc EXCEPT ![c] = "vanilla_cmd"]
                 /\ UNCHANGED result
            ELSE EndTry(c, "fatal")
    /\ UNCHANGED <<proc, is_game_running, game_process, game_lock, registry,
                   fabric_loader, command, child, exit_status>>
    /\ UNCHANGED <<remote_calls, skin_vars, drain_vars, config_vars, init_vars>>

VanillaCommandKeepsFabric(built) == IF built THEN "fabric" ELSE "none"

VanillaCommand(built) == IF built THEN "vanilla" ELSE "none"

vanilla_command_step(c) ==
    /\ pc[c] = "vanilla_cmd"
    /\ \E built \in BOOLEAN :
         /\ command' = [command EXCEPT ![c] = VanillaCommand(built)]
         /\ IF built
            THEN /\ pc' = [pc EXCEPT ![c] = "popen"]
                 /\ UNCHANGED result
            ELSE EndTry(c, "fatal")
    /\ UNCHANGED <<proc, is_game_running, game_process, game_lock, registry,
                   fabric_loader, child, exit_status, fs>>
    /\ UNCHANGED <<remote_calls, skin_vars, drain_vars, config_vars, init_vars>>

(***************************************************************************)
(* Lines 315-324: the child process is spawned with the command built, its  *)
(* handle is stored in the global game_process (outside game_lock), and     *)
(* the log file is opened for appending.  A failure to open the log file    *)
(* leaves the try block with the child running.                             *)
(***************************************************************************)
popen_step(c) ==
    /\ pc[c] = "popen"
    /\ \E spawned \in BOOLEAN, log_opened \in BOOLEAN :
         IF spawned
         THEN /\ child' = [child EXCEPT ![c] = [state |-> "alive", argv |-> command[c]]]
              /\ game_process' = [game_process EXCEPT ![P(c)] = c]
              /\ IF log_opened
                 THEN /\ pc' = [pc EXCEPT ![c] = "drain"]
                      /\ UNCHANGED result
                 ELSE EndTry(c, "error")
         ELSE /\ EndTry(c, "error")
              /\ UNCHANGED <<child, game_process>>
    /\ UNCHANGED <<proc, is_game_running, game_lock, registry, fabric_loader,
                   command, exit_status, fs>>
    /\ UNCHANGED <<remote_calls, skin_vars, drain_vars, config_vars, init_vars>>

(***************************************************************************)
(* Lines 325-332: one round of the drain loop.  Every round reads the       *)
(* global game_process: None there raises AttributeError; otherwise the     *)
(* loop ends once the process the global refers to has exited.              *)
(***************************************************************************)
drain_step(c) ==
    /\ pc[c] = "drain"
    /\ LET g == game_process[P(c)] IN
         /\ IF g = None THEN TRUE ELSE child[g].state = "exited"
         /\ EndTry(c, IF g = None THEN "error" ELSE "ok")
    /\ UNCHANGED <<proc, is_game_running, game_process, game_lock, registry,
                   fabric_loader, command, child, exit_status, fs>>
    /\ UNCHANGED <<remote_calls, skin_vars, drain_vars, config_vars, init_vars>>

(* The game process ends: by itself, by a crash, or stopped by the user. *)
child_exit(c) ==
    /\ child[c].state = "alive"
    /\ child' = [child EXCEPT ![c] = [state |-> "exited", argv |-> "none"]]
    /\ UNCHANGED <<pc, proc, is_game_running, game_process, game_lock, registry,
                   fabric_loader, command, result, exit_status, fs>>
    /\ UNCHANGED <<remote_calls, skin_vars, drain_vars, config_vars, init_vars>>

(***************************************************************************)
(* The drain loop line by line (lines 324-331), and the child's side of     *)
(* the pipe.  drain_step above is the whole loop as one blocking step.      *)
(***************************************************************************)
(* The child writes its next line to its stdout/stderr pipe. *)
child_write(c) ==
    /\ child[c].state = "alive"
    /\ stdout_open[c]
    /\ written[c] < MaxLines
    /\ written' = [written EXCEPT ![c] = @ + 1]
    /\ pipe' = [pipe EXCEPT ![c] = Append(@, written[c] + 1)]
    /\ UNCHANGED <<stdout_open, logf, launcher_vars, skin_vars, config_vars, init_vars>>

(* The child closes its output and goes on running. *)
child_close_stdout(c) ==
    /\ child[c].state = "alive"
    /\ stdout_open[c]
    /\ stdout_open' = [stdout_open EXCEPT ![c] = FALSE]
    /\ UNCHANGED <<pipe, written, logf, launcher_vars, skin_vars, config_vars, init_vars>>

(* process.poll() is not None *)
Exited(g) == child[g].state = "exited"

(* Nothing is left to read and nothing can be written any more. *)
AtEof(g) == pipe[g] = <<>> /\ (~stdout_open[g] \/ Exited(g))

(* Line 325, the loop test "while game_process.poll() is None". *)
drain_poll(c) ==
    /\ pc[c] = "drain"
    /\ LET g == game_process[P(c)] IN
         IF g = None THEN EndTry(c, "error")
         ELSE IF Exited(g) THEN EndTry(c, "ok")
         ELSE /\ pc' = [pc EXCEPT ![c] = "drain_read"]
              /\ UNCHANGED result
    /\ UNCHANGED <<proc, is_game_running, game_process, game_lock, registry,
                   fabric_loader, command, child, exit_status, fs>>
    /\ UNCHANGED <<remote_calls, skin_vars, drain_vars, config_vars, init_vars>>

(* Line 327: "if output == '' and game_process.poll() is not None: break". *)
Break(output, exited) == output = <<>> /\ exited

(* Lines 326-331, the loop body: readline waits for a line or for the end   *)
(* of the stream, where it returns ''; a line read is appended to LOG_FILE. *)
drain_read(c) ==
    /\ pc[c] = "drain_read"
    /\ LET g == game_process[P(c)] IN
         IF g = None
         THEN /\ EndTry(c, "error")
              /\ UNCHANGED <<pipe, logf>>
         ELSE /\ IF pipe[g] # <<>> THEN TRUE ELSE AtEof(g)
              /\ LET output == IF pipe[g] # <<>> THEN <<Head(pipe[g])>> ELSE <<>> IN
                   /\ pipe' = [pipe EXCEPT ![g] = IF @ # <<>> THEN Tail(@) ELSE @]
                   /\ logf' = logf \o output
                   /\ IF Break(output, Exited(g))
                      THEN EndTry(c, "ok")
                      ELSE /\ pc' = [pc EXCEPT ![c] = "drain"]
                           /\ UNCHANGED result
    /\ UNCHANGED <<proc, is_game_running, game_process, game_lock, registry,
                   fabric_loader, command, child, exit_status, fs>>
    /\ UNCHANGED <<remote_calls, written, stdout_open, skin_vars, config_vars, init_vars>>

(***************************************************************************)
(* Lines 335-338: the finally block, which every way out of the try block   *)
(* runs, the return at line 211 included.  launch_game then returns None    *)
(* and, in the main thread, main() returns None: exit status 0 (340-344).   *)
(***************************************************************************)
finally_acquire(c) ==
    /\ pc[c] = "finally"
    /\ game_lock[P(c)] = None
    /\ game_lock' = [game_lock EXCEPT ![P(c)] = c]
    /\ pc' = [pc EXCEPT ![c] = "finally_locked"]
    /\ UNCHANGED <<proc, is_game_running, game_process, registry,
                   fabric_loader, command, child, result, exit_status, fs>>
    /\ UNCHANGED <<remote_calls, skin_vars, drain_vars, config_vars, init_vars>>

FinallyResetsOnSuccessOnly(how, running) == IF how = "ok" THEN FALSE ELSE running

FinallyReset(how, running) == FALSE

main(how) == 0

finally_body(c) ==
    /\ pc[c] = "finally_locked"
    /\ is_game_running' = [is_game_running EXCEPT ![P(c)] = FinallyReset(result[c], @)]
    /\ game_process' = [game_process EXCEPT ![P(c)] = None]
    /\ game_lock' = [game_lock EXCEPT ![P(c)] = None]
    /\ pc' = [pc EXCEPT ![c] = "done"]
    /\ fabric_loader' = [fabric_loader EXCEPT ![c] = ""]
    /\ command' = [command EXCEPT ![c] = "none"]
    /\ exit_status' = IF P(c) = c
                      THEN [exit_status EXCEPT ![c] = main(result[c])]
                      ELSE exit_status
    /\ UNCHANGED <<proc, registry, child, result, fs>>
    /\ UNCHANGED <<remote_calls, skin_vars, drain_vars, config_vars, init_vars>>

(* The steps of launch_game, once call c has entered it. *)
Run(c) ==
    \/ gate_acquire(c)
    \/ gate_body(c)
    \/ skin_step(c)
    \/ resolve_step(c)
    \/ install_fabric_step(c)
    \/ install_minecraft_step(c)
    \/ fabric_command_step(c)
    \/ vanilla_install_step(c)
    \/ vanilla_command_step(c)
    \/ popen_step(c)
    \/ drain_step(c)
    \/ child_exit(c)
    \/ finally_acquire(c)
    \/ finally_body(c)

(* One launcher process: the Play button starts it, and launch_game is      *)
(* called in it by up to MaxCalls threads.                                  *)
Next ==
    \/ launch_minecraft(1)
    \/ \E c \in 2..MaxCalls : launch_game_enter(c)
    \/ \E c \in 1..MaxCalls : Run(c)

Spec == Init /\ [][Next]_vars

(* The same under fair scheduling: a thread that can step does step, and a  *)
(* game child process that is alive exits in the end.                       *)
SpecLive ==
    /\ Init
    /\ [][Next]_vars
    /\ \A c \in 1..MaxCalls : WF_vars(Run(c)) /\ WF_vars(child_exit(c))

(* The same with OverlapCalls threads. *)
NextOverlap ==
    \/ launch_minecraft(1)
    \/ \E c \in 2..OverlapCalls : launch_game_enter(c)
    \/ \E c \in 1..OverlapCalls : Run(c)

SpecOverlap == Init /\ [][NextOverlap]_vars

(* The application as shipped: every press of the Play button starts a      *)
(* launcher process, and each launcher process calls launch_game once.      *)
NextGui ==
    \/ \E c \in 1..MaxCalls : launch_minecraft(c)
    \/ \E c \in 1..MaxCalls : Run(c)

SpecGui == Init /\ [][NextGui]_vars

(***************************************************************************)
(* ConfigManager.load_config (main.py 38-87).                               *)
(***************************************************************************)
(* isinstance(x, (int, float)): a bool is an int. *)
IsNumber(x) == x.t \in {"int", "float", "inf", "nan", "bool"}

(* isinstance(x, str), isinstance(x, bool) *)
IsStr(x) == x.t = "str"
IsBool(x) == x.t = "bool"

(* lo <= x <= hi for a number x and integers lo, hi: a float is n + 0.5,    *)
(* infinity is above hi, and every comparison with NaN is false.            *)
InRange(x, lo, hi) ==
    IF x.t \in {"int", "bool"} THEN lo <= x.n /\ x.n <= hi
    ELSE IF x.t = "float" THEN lo <= x.n /\ x.n + 1 <= hi
    ELSE FALSE

(* int(x) for a number x: truncation, OverflowError for infinity and        *)
(* ValueError for NaN.                                                      *)
IntOf(x) ==
    IF x.t = "inf" THEN [exc |-> "OverflowError", n |-> 0]
    ELSE IF x.t = "nan" THEN [exc |-> "ValueError", n |-> 0]
    ELSE IF x.t = "float" /\ x.n < 0 THEN [exc |-> "none", n |-> x.n + 1]
    ELSE [exc |-> "none", n |-> x.n]

Max(a, b) == IF a >= b THEN a ELSE b

(* str.strip(): leading and trailing whitespace removed. *)
Whitespace == {" ", "\t", "\n"}

RECURSIVE LStrip(_)
LStrip(s) ==
    IF s # <<>> /\ Head(s) \in Whitespace THEN LStrip(Tail(s)) ELSE s

RECURSIVE RStrip(_)
RStrip(s) ==
    IF s # <<>> /\ s[Len(s)] \in Whitespace THEN RStrip(SubSeq(s, 1, Len(s) - 1)) ELSE s

Strip(s) == RStrip(LStrip(s))

(* config.get(key, default) *)
Get(obj, key, default) == IF obj[key] = Absent THEN default ELSE obj[key]

(* Lines 54-57. *)
ValidatedRam(obj) ==
    LET ram == Get(obj, "ram", JInt(4)) IN
    IF IsNumber(ram) /\ InRange(ram, 2, 32) THEN ram ELSE DEFAULT_CONFIG.ram

(* Lines 59-62. *)
ValidatedSkin(obj) ==
    LET skin == Get(obj, "skin", JStr(<<>>)) IN
    IF IsStr(skin) THEN skin ELSE DEFAULT_CONFIG.skin

(* Lines 64-67. *)
ValidatedNickname(obj) ==
    LET nickname == Get(obj, "nickname", DEFAULT_CONFIG.nickname) IN
    IF IsStr(nickname) /\ Len(Strip(nickname.s)) > 0
    THEN JStr(Strip(nickname.s))
    ELSE DEFAULT_CONFIG.nickname

(* Lines 70-72, for key in ["theme", "java_path"]. *)
ValidatedStr(obj, key) ==
    IF obj[key] # Absent /\ IsStr(obj[key]) THEN obj[key] ELSE DEFAULT_CONFIG[key]

(* Lines 74-76, for key in ["auto_update"]. *)
ValidatedBool(obj, key) ==
    IF obj[key] # Absent /\ IsBool(obj[key]) THEN obj[key] ELSE DEFAULT_CONFIG[key]

(* Lines 78-80, for key in ["window_width", "window_height"]: the value     *)
(* stored, or the exception int() raises.                                   *)
ValidatedSize(obj, key) ==
    IF obj[key] # Absent /\ IsNumber(obj[key])
    THEN LET i == IntOf(obj[key]) IN
         [exc |-> i.exc, value |-> JInt(Max(600, i.n))]
    ELSE [exc |-> "none", value |-> DEFAULT_CONFIG[key]]

(* Lines 47-82: the validated copy of an object, or the exception raised    *)
(* on the way (the width is converted before the height).                   *)
Validated(obj) ==
    LET width == ValidatedSize(obj, "window_width")
        height == ValidatedSize(obj, "window_height")
    IN [exc |-> IF width.exc # "none" THEN width.exc ELSE height.exc,
        value |-> [ram |-> ValidatedRam(obj),
                   skin |-> ValidatedSkin(obj),
                   nickname |-> ValidatedNickname(obj),
                   theme |-> ValidatedStr(obj, "theme"),
                   auto_update |-> ValidatedBool(obj, "auto_update"),
                   java_path |-> ValidatedStr(obj, "java_path"),
                   window_width |-> width.value,
                   window_height |-> height.value]]

(* What opening and parsing the file raises (lines 42-45). *)
ReadError(file) ==
    CASE file.kind = "unreadable" -> "IOError"
      [] file.kind = "undecodable" -> "UnicodeDecodeError"
      [] file.kind = "not_json" -> "JSONDecodeError"
      [] OTHER -> "none"

(* except (json.JSONDecodeError, IOError, UnicodeDecodeError), line 84. *)
LoadCatches(exc) == exc \in {"JSONDecodeError", "IOError", "UnicodeDecodeError"}

Returned(value) == [state |-> "returned", exc |-> "none", value |-> value]
Raised(exc) == [state |-> "raised", exc |-> exc, value |-> DEFAULT_CONFIG]

ConfigManager_load_config(file) ==
    LET exc == IF file.kind = "object" THEN Validated(file.obj).exc
               ELSE ReadError(file)
    IN IF exc # "none"
       THEN IF LoadCatches(exc) THEN Returned(DEFAULT_CONFIG) ELSE Raised(exc)
       ELSE IF file.kind = "object" THEN Returned(Validated(file.obj).value)
       ELSE Returned(DEFAULT_CONFIG)

(* The module function load_config (main.py 137-139). *)
load_config(file) == ConfigManager_load_config(file)

load_config_step ==
    /\ config_data.state = "unread"
    /\ config_data' = load_config(config_file)
    /\ UNCHANGED <<config_file, options, saved, launcher_vars, skin_vars, drain_vars,
                   init_vars>>

(***************************************************************************)
(* ConfigManager.save_config (main.py 90-135) and the module function       *)
(* save_config (main.py 141-148).                                           *)
(***************************************************************************)
(* isinstance(value, type(default)): bool is a subclass of int. *)
IsInstanceOfDefault(value, default) ==
    IF default.t = "int" THEN value.t \in {"int", "bool"}
    ELSE value.t = default.t

(* Lines 96-111: validated_config. *)
SaveValidated(config) ==
    [key \in DOMAIN DEFAULT_CONFIG |->
        IF key = "ram"
        THEN LET ram == Get(config, "ram", JInt(4)) IN
             IF IsNumber(ram) /\ InRange(ram, 2, 32) THEN ram ELSE JInt(4)
        ELSE LET value == Get(config, key, DEFAULT_CONFIG[key]) IN
             IF IsInstanceOfDefault(value, DEFAULT_CONFIG[key]) THEN value
             ELSE DEFAULT_CONFIG[key]]

(* The JSON text json.dump writes for a value: a literal, the digits of a   *)
(* number with ".5" for a float, or a quoted string.                        *)
JsonDump(x) ==
    IF x.t = "int" THEN [lit |-> "digits", n |-> x.n, s |-> <<>>]
    ELSE IF x.t = "float" THEN [lit |-> "digits.5", n |-> x.n, s |-> <<>>]
    ELSE IF x.t = "bool"
    THEN [lit |-> IF x.n = 1 THEN "true" ELSE "false", n |-> 0, s |-> <<>>]
    ELSE IF x.t = "str" THEN [lit |-> "quoted", n |-> 0, s |-> x.s]
    ELSE IF x.t = "inf" THEN [lit |-> "Infinity", n |-> 0, s |-> <<>>]
    ELSE IF x.t = "nan" THEN [lit |-> "NaN", n |-> 0, s |-> <<>>]
    ELSE [lit |-> "null", n |-> 0, s |-> <<>>]

(* The value json.load reads from such a text. *)
JsonLoad(text) ==
    IF text.lit = "digits" THEN JInt(text.n)
    ELSE IF text.lit = "digits.5" THEN JFloat(text.n)
    ELSE IF text.lit = "true" THEN JBool(TRUE)
    ELSE IF text.lit = "false" THEN JBool(FALSE)
    ELSE IF text.lit = "quoted" THEN JStr(text.s)
    ELSE IF text.lit = "Infinity" THEN JInf
    ELSE IF text.lit = "NaN" THEN JNaN
    ELSE JNull

(* The UTF-8 codec of the file opened at line 117 encodes every character   *)
(* but a lone surrogate.                                                    *)
Encodable(s) == \A i \in DOMAIN s : s[i] # Surrogate

(* json.dump(..., ensure_ascii=False) raises no encoding error of its own:   *)
(* the write to the file does, for the first string the codec refuses.      *)
DumpError(validated) ==
    IF \E key \in DOMAIN validated :
           validated[key].t = "str" /\ ~Encodable(validated[key].s)
    THEN "UnicodeEncodeError" ELSE "none"

(* config.json after lines 117-118 wrote all of validated_config. *)
Written(validated) ==
    [kind |-> "object",
     obj |-> [k \in Keys |-> IF k \in DOMAIN validated
                             THEN JsonLoad(JsonDump(validated[k]))
                             ELSE Absent]]

(* config.json after open(..., "w") truncated it and the write stopped. *)
Truncated == [kind |-> "not_json", obj |-> NoKeys]

(* Line 133: except (IOError, UnicodeEncodeError). OSError is IOError. *)
SaveCatchesEncodingOnly(exc) == exc \in {"UnicodeEncodeError"}

SaveCatches(exc) == exc \in {"IOError", "UnicodeEncodeError"}

(* Line 128: except (IOError, OSError). *)
CopyCatches(exc) == exc \in {"IOError"}

(* The exception lines 113-118 raise, if any. *)
SaveError(validated, disk) ==
    IF disk.mkdir = "error" THEN "IOError"
    ELSE IF disk.write = "open_error" THEN "IOError"
    ELSE IF DumpError(validated) # "none" THEN DumpError(validated)
    ELSE IF disk.write = "write_error" THEN "IOError"
    ELSE "none"

(* save_config(config_path, config) on a disk that holds file: the value    *)
(* returned ("raised" when the exception leaves the function), config.json  *)
(* afterwards, and what became of minecraft/skin.png.                       *)
ConfigManager_save_config(config, file, disk) ==
    LET validated == SaveValidated(config)
        exc == SaveError(validated, disk)
        opened == disk.mkdir = "ok" /\ disk.write # "open_error"
        skin_path == validated.skin.s
        copy == IF exc = "none" /\ skin_path # <<>> THEN disk.copy ELSE "no_file"
    IN [result |-> IF exc = "none"
                   THEN IF copy = "error" /\ ~CopyCatches("IOError")
                        THEN "raised" ELSE "True"
                   ELSE IF SaveCatches(exc) THEN "False" ELSE "raised",
        file |-> IF exc = "none" THEN Written(validated)
                 ELSE IF opened THEN Truncated
                 ELSE file,
        skin_png |-> IF copy = "ok" THEN "copied"
                     ELSE IF copy = "error" THEN "failed"
                     ELSE "none"]

(* Lines 141-148: the dict the wrapper builds has three keys. *)
LegacyConfig(ram_value, skin_value, nickname_value) ==
    [key \in DOMAIN DEFAULT_CONFIG |->
        IF key = "ram" THEN ram_value
        ELSE IF key = "skin" THEN skin_value
        ELSE IF key = "nickname" THEN nickname_value
        ELSE Absent]

save_config(ram_value, skin_value, nickname_value, file, disk) ==
    ConfigManager_save_config(
        LegacyConfig(ram_value, skin_value, nickname_value), file, disk)

(* What the slider, the skin path field and the nickname field hold. *)
Ui ==
    [ram : {JInt(8)},
     skin : {JStr(<<>>), JStr(<<"s", ".", "p", "n", "g">>)},
     nickname : {JStr(<<"S">>), JStr(<<"P", "l", "a", "y", "e", "r">>)}]

(* A save replaces config.json; what was loaded and built from the old file  *)
(* is not what the new file gives, so the file counts as unread again.      *)
AfterSave(config, done, disk) ==
    /\ saved' = [state |-> "done", config |-> config, before |-> config_file,
                 disk |-> disk, result |-> done.result,
                 skin_png |-> done.skin_png]
    /\ config_file' = done.file
    /\ config_data' = Unread
    /\ options' = NoOptions
    /\ UNCHANGED <<launcher_vars, skin_vars, drain_vars, init_vars>>

(* ConfigManager.save_config(path, c) for the config c load_config returned. *)
save_loaded_step ==
    /\ saved.state = "none"
    /\ config_data.state = "returned"
    /\ \E disk \in Disks :
           AfterSave(config_data.value,
                     ConfigManager_save_config(config_data.value, config_file, disk),
                     disk)

(* save_config(path, ram, skin, nickname) from the nickname field (main.py  *)
(* 501-507) or the settings Save button (main.py 731); both are built after *)
(* load_config returned (main.py 195, 685).                                 *)
save_config_step ==
    /\ saved.state = "none"
    /\ config_data.state = "returned"
    /\ \E ui \in Ui, disk \in Disks :
           AfterSave(LegacyConfig(ui.ram, ui.skin, ui.nickname),
                     save_config(ui.ram, ui.skin, ui.nickname, config_file, disk),
                     disk)

(***************************************************************************)
(* launch_game, lines 263-281: the launch options.                          *)
(***************************************************************************)
(* The value a dict display gives a key: that of the last pair with the key. *)
DictDisplay(pairs, key) ==
    LET at == {i \in DOMAIN pairs : pairs[i][1] = key}
        last == CHOOSE i \in at : \A k \in at : k <= i
    IN pairs[last][2]

launch_options(file) ==
    LET loaded == load_config(file)
        nickname == IF loaded.state = "raised" THEN USERNAME
                    ELSE loaded.value.nickname.s
        ram_value == IF loaded.state = "raised" THEN JInt(MEMORY_GB)
                     ELSE loaded.value.ram
    IN [built |-> TRUE,
        username |-> DictDisplay(<< <<"username", nickname>>,
                                    <<"username", USERNAME>> >>, "username"),
        xmx |-> MEMORY_GB * 1024]

options_step ==
    /\ ~options.built
    /\ options' = launch_options(config_file)
    /\ UNCHANGED <<config_file, config_data, saved, launcher_vars, skin_vars,
                   drain_vars, init_vars>>

(***************************************************************************)
(* LauncherInitializer (app_init.py): validate_system_requirements (55-126), *)
(* create_default_config (128-159) and initialize (180-241). A message of   *)
(* an errors list is known by what it reports.                              *)
(***************************************************************************)
validate_system_requirements(met) ==
    LET python == IF met.python_ok THEN <<>> ELSE <<"python">>
        space == IF ~met.disk.raised /\ met.disk.gb < 2 THEN <<"disk_space">>
                 ELSE <<>>
        java == IF met.java = "none" THEN <<"java">> ELSE <<>>
        low_space == IF ~met.disk.raised /\ 2 <= met.disk.gb /\ met.disk.gb < 5
                     THEN <<"low_disk_space">> ELSE <<>>
        low_memory == IF ~met.memory.raised /\ met.memory.gb < 4
                      THEN <<"low_memory">> ELSE <<>>
    IN IF met.java = "raised"
       THEN [valid |-> FALSE, errors |-> python \o <<"validation_failed">>,
             warnings |-> <<>>]
       ELSE [valid |-> met.python_ok /\ space = <<>>, errors |-> python \o space,
             warnings |-> java \o low_space \o low_memory]

(* True when config.json exists or save_config returned True. *)
create_default_config(met) == met.config \in {"exists", "saved"}

initialize(met) ==
    LET directories == met.directories
        validation == validate_system_requirements(met)
        config == create_default_config(met)
    IN [state |-> "returned",
        success |-> directories /\ validation.valid,
        directories_created |-> directories,
        config_created |-> config,
        system_validation |-> validation,
        updates_checked |-> met.update \in {"updates", "no_updates"},
        errors |-> (IF directories THEN <<>> ELSE <<"directories">>)
                   \o (IF validation.valid THEN <<>> ELSE validation.errors)
                   \o (IF config THEN <<>> ELSE <<"default_config">>)]

initialize_step ==
    /\ init_result.state = "none"
    /\ init_result' = initialize(outcomes)
    /\ UNCHANGED <<outcomes, launcher_vars, skin_vars, drain_vars, config_vars>>

(***************************************************************************)
(* One launch_game call with its drain loop followed line by line.          *)
(***************************************************************************)
RunDrain(c) ==
    \/ gate_acquire(c)
    \/ gate_body(c)
    \/ skin_step(c)
    \/ resolve_step(c)
    \/ install_fabric_step(c)
    \/ install_minecraft_step(c)
    \/ fabric_command_step(c)
    \/ vanilla_install_step(c)
    \/ vanilla_command_step(c)
    \/ popen_step(c)
    \/ drain_poll(c)
    \/ drain_read(c)
    \/ child_write(c)
    \/ child_close_stdout(c)
    \/ child_exit(c)
    \/ finally_acquire(c)
    \/ finally_body(c)

NextDrain ==
    \/ launch_minecraft(1)
    \/ RunDrain(1)

SpecDrain == Init /\ [][NextDrain]_vars

(***************************************************************************)
(* ensure_customskinloader alone: any Modrinth answer, a mods directory     *)
(* with any of the jars in it, and up to MaxSkinRuns runs of the function.  *)
(***************************************************************************)
(* The registry of loader versions plays no part where launch_game does not run. *)
Offline == [ok |-> FALSE, value |-> "", exc |-> "ConnectionError"]

InitSkin ==
    /\ LauncherIdle
    /\ registry = Offline
    /\ response \in Responses
    /\ mods \in {m \in [Filenames -> {"absent", "artifact"}] : m[Sources] = "absent"}
    /\ requests = <<>>
    /\ api_answers = <<>>
    /\ DrainIdle
    /\ ConfigIdle

NextSkin == ensure_run

SpecSkin == InitSkin /\ [][NextSkin]_vars

(***************************************************************************)
(* The config store alone: any config.json, loaded by load_config and read  *)
(* by launch_game for its launch options.                                   *)
(***************************************************************************)
InitConfig ==
    /\ LauncherIdle
    /\ registry = Offline
    /\ SkinIdle
    /\ DrainIdle
    /\ config_file \in ConfigFiles
    /\ config_data = Unread
    /\ options = NoOptions
    /\ saved = NoSave
    /\ InitializerIdle

NextConfig ==
    \/ load_config_step
    \/ options_step
    \/ save_loaded_step
    \/ save_config_step

SpecConfig == InitConfig /\ [][NextConfig]_vars

(***************************************************************************)
(* LauncherInitializer.initialize alone: any outcome of its steps.          *)
(***************************************************************************)
InitInitializer ==
    /\ LauncherIdle
    /\ registry = Offline
    /\ SkinIdle
    /\ DrainIdle
    /\ config_file = [kind |-> "missing", obj |-> NoKeys]
    /\ config_data = Unread
    /\ options = NoOptions
    /\ saved = NoSave
    /\ outcomes \in Outcomes
    /\ init_result = NotInitialized

NextInitializer == initialize_step

SpecInitializer == InitInitializer /\ [][NextInitializer]_vars

(***************************************************************************)
(* The session state of launcher process p, read off its two globals.       *)
(***************************************************************************)
Idle(p) == ~is_game_running[p] /\ game_process[p] = None
Starting(p) == is_game_running[p] /\ game_process[p] = None
Running(p) == is_game_running[p] /\ game_process[p] # None

(* The game child processes alive now. *)
AliveChildren == {c \in Calls : child[c].state = "alive"}

(* Call c takes a step of launch_game. *)
Steps(c) == pc'[c] # pc[c]

(***************************************************************************)
(* C1: at most one game child process is alive for the whole application,   *)
(* over every interleaving of launcher processes started by the Play button. *)
(***************************************************************************)
C1_AtMostOneSession == Cardinality(AliveChildren) <= 1

(***************************************************************************)
(* C2: a launch_game call that found is_game_running true (Busy) changes    *)
(* neither is_game_running nor game_process nor the game directory in any   *)
(* of its steps, its finally block included.                                *)
(***************************************************************************)
C2_BusyIsNoOp ==
    [][\A c \in Calls :
         (result[c] = "busy" /\ Steps(c)) =>
             /\ is_game_running' = is_game_running
             /\ game_process' = game_process
             /\ fs' = fs]_vars

(* Where a call stands when its next step is an install step. *)
InstallPcs == {"skin", "fabric", "mc", "vanilla_install"}

(***************************************************************************)
(* C3: no call takes an install step (the auxiliary mod, install_fabric,    *)
(* install_minecraft_version for Fabric or vanilla) while a game child      *)
(* process spawned by another call of the same launcher process is alive.   *)
(***************************************************************************)
C3_NoInstallDuringPlay ==
    [][\A c \in Calls :
         (pc[c] \in InstallPcs /\ Steps(c)) =>
             \A d \in Calls \ {c} :
                 proc[d] = proc[c] => child[d].state # "alive"]_vars

(***************************************************************************)
(* C4: a call that owns the session (it passed the gate) returns only       *)
(* through the finally block, whatever ended its try block, and the step    *)
(* that returns leaves its launcher process Idle with game_lock free.       *)
(***************************************************************************)
C4_OwnerReturnsIdle ==
    [][\A c \in Calls :
         (pc'[c] = "done" /\ pc[c] # "done" /\ result[c] # "busy") =>
             /\ pc[c] = "finally_locked"
             /\ result[c] \in {"ok", "error", "fatal"}
             /\ Idle(P(c))'
             /\ game_lock'[P(c)] = None]_vars

(* An owner has returned after an exception, and another after its child exited. *)
C4_Witness ==
    \E c \in Calls, d \in Calls :
        /\ pc[c] = "done" /\ result[c] \in {"error", "fatal"}
        /\ pc[d] = "done" /\ result[d] = "ok" /\ child[d].state = "exited"
        /\ Idle(P(c))

(***************************************************************************)
(* C5: the session state of a launcher process becomes Running only from    *)
(* Starting and only by the step that obtains the child handle from Popen;  *)
(* it never goes from Idle to Running, nor from Running to Starting.        *)
(***************************************************************************)
C5_SessionStateMachine ==
    [][\A p \in Calls :
         /\ (Running(p)' /\ ~Running(p)) =>
                /\ Starting(p)
                /\ \E c \in Calls : pc[c] = "popen" /\ Steps(c) /\ game_process'[p] = c
         /\ ~(Idle(p) /\ Running(p)')
         /\ ~(Running(p) /\ Starting(p)')]_vars

(***************************************************************************)
(* C6: the step that resolves the loader version never leaves the try       *)
(* block; it yields the remote value when the remote call succeeds and      *)
(* "0.15.11", the first fallback entry, for every failure of the remote.    *)
(***************************************************************************)
C6_ResolverFallsBack ==
    [][\A c \in Calls :
         (pc[c] = "resolve" /\ Steps(c)) =>
             /\ pc'[c] = "fabric"
             /\ fabric_loader'[c] = IF registry.ok THEN registry.value ELSE "0.15.11"]_vars

(* The remote call failed and a call holds the first fallback entry. *)
C6_Witness ==
    \E c \in Calls :
        /\ pc[c] = "fabric"
        /\ ~registry.ok
        /\ fabric_loader[c] = FALLBACK_FABRIC_VERSIONS[1]

(* Where a call stands once line 230 has assigned fabric_loader. *)
PastResolve ==
    {"fabric", "mc", "cmd", "vanilla_install", "vanilla_cmd", "popen", "drain"}

(***************************************************************************)
(* C7: resolution always terminates with a non-empty version string: a call *)
(* about to resolve can always take that step, and every call past it holds *)
(* a non-empty fabric_loader, whatever the registry answered.               *)
(***************************************************************************)
C7_ResolverNonEmpty ==
    \A c \in Calls :
        /\ pc[c] = "resolve" => ENABLED resolve_step(c)
        /\ pc[c] \in PastResolve => fabric_loader[c] # ""

(* A call is past the resolution under a registry that timed out. *)
C7_Witness ==
    \E c \in Calls :
        /\ pc[c] \in PastResolve
        /\ registry.exc = "Timeout"
        /\ fabric_loader[c] # ""

(***************************************************************************)
(* C8: the install sequence is best-effort: whatever the auxiliary-mod      *)
(* step, install_fabric and install_minecraft_version do (succeed, fail     *)
(* with a network error, fail with any other exception), the call goes on   *)
(* to the following step, up to the construction of the launch command.     *)
(***************************************************************************)
C8_BestEffortInstall ==
    [][\A c \in Calls :
         Steps(c) =>
             /\ pc[c] = "skin" => pc'[c] = "resolve"
             /\ pc[c] = "resolve" => pc'[c] = "fabric"
             /\ pc[c] = "fabric" => pc'[c] = "mc"
             /\ pc[c] = "mc" => pc'[c] = "cmd"
             /\ pc[c] = "cmd" => pc'[c] \in {"popen", "vanilla_install"}]_vars

(* No install step has succeeded yet, and a call has reached the launch      *)
(* command, and built it.                                                    *)
C8_Witness ==
    \E c \in Calls :
        /\ fs = EmptyDir
        /\ \A d \in Calls \ {c} : pc[d] \in {"idle", "gate"}
        /\ pc[c] = "popen"
        /\ command[c] = "fabric"

(***************************************************************************)
(* C9: when the Fabric command cannot be built, the vanilla variant is      *)
(* tried, once: the vanilla version is installed and its command built, a   *)
(* failure there ends the try block, and on success the call goes on to     *)
(* Popen with the vanilla command, which is the command the child gets.     *)
(***************************************************************************)
C9_VanillaFallback ==
    [][\A c \in Calls :
         Steps(c) =>
             /\ (pc[c] = "cmd" /\ pc'[c] # "popen") =>
                    pc'[c] = "vanilla_install" /\ result'[c] = "none"
             /\ pc[c] = "vanilla_install" => pc'[c] \in {"vanilla_cmd", "finally"}
             /\ pc[c] = "vanilla_cmd" => pc'[c] \in {"popen", "finally"}
             /\ (pc[c] = "vanilla_cmd" /\ pc'[c] = "popen") =>
                    command'[c] = "vanilla" /\ result'[c] = "none"
             /\ (pc[c] = "popen" /\ child'[c].state = "alive") =>
                    child'[c].argv = command[c]
             /\ (pc'[c] = "popen" /\ command'[c] = "vanilla") =>
                    pc[c] = "vanilla_cmd"]_vars

(* A child process runs the vanilla command. *)
C9_Witness ==
    \E c \in Calls :
        /\ child[c] = [state |-> "alive", argv |-> "vanilla"]
        /\ pc[c] = "drain"
        /\ "vanilla" \in fs.installed

(***************************************************************************)
(* C10: when neither the Fabric nor the vanilla command can be built (the   *)
(* vanilla version itself is installed), no child process is spawned and    *)
(* the launcher process whose main() made the call ends with a non-zero     *)
(* exit status.                                                             *)
(***************************************************************************)
C10_FatalIsReported ==
    \A c \in Calls :
        (pc[c] = "done" /\ result[c] = "fatal" /\ P(c) = c
            /\ "vanilla" \in fs.installed) =>
            /\ child[c].state = "none"
            /\ exit_status[c] > 0

(***************************************************************************)
(* The selection the Modrinth answer calls for, stated over the whole list. *)
(***************************************************************************)
(* Record v is for the launcher's game version and loader and has a jar. *)
Qualifies(v) ==
    /\ \E i \in DOMAIN v.game_versions : v.game_versions[i] = MINECRAFT_VERSION
    /\ \E i \in DOMAIN v.loaders : v.loaders[i] = LOADER
    /\ \E j \in DOMAIN v.files : v.files[j].ext = "jar"

Qualifying == {i \in DOMAIN response : Qualifies(response[i])}

(* The first jar of the first qualifying record of the answer, if any. *)
SelectedJar ==
    IF Qualifying = {} THEN NoFile
    ELSE LET i == CHOOSE i \in Qualifying : \A k \in Qualifying : i <= k
             files == response[i].files
             jars == {j \in DOMAIN files : files[j].ext = "jar"}
             j == CHOOSE j \in jars : \A k \in jars : j <= k
         IN files[j]

(* This step is a run of ensure_customskinloader. *)
EnsureRuns == Len(api_answers') > Len(api_answers)

(***************************************************************************)
(* C11: a run of ensure_customskinloader that finds the selected jar        *)
(* already in minecraft/mods requests no download and leaves every file of  *)
(* the directory as it was, so a second run in succession ends with the     *)
(* same files as the first.                                                 *)
(***************************************************************************)
C11_NoDuplicateDownload ==
    [][(EnsureRuns /\ SelectedJar # NoFile /\ mods[SelectedJar] # "absent") =>
           /\ requests' = requests
           /\ mods' = mods]_vars

(* Two runs got the list, the first downloaded the jar, the second did not. *)
C11_Witness ==
    /\ api_answers = <<"listed", "listed">>
    /\ SelectedJar # NoFile
    /\ requests = <<SelectedJar>>
    /\ mods[SelectedJar] = "artifact"

(***************************************************************************)
(* C12: a run of ensure_customskinloader touches no file but the first jar  *)
(* of the first record, in list order, that names the game version and the  *)
(* loader and holds a jar: it requests that jar when the list arrived and   *)
(* the jar is not in minecraft/mods, writes no other file, and writes and   *)
(* requests nothing when no record qualifies.                               *)
(***************************************************************************)
C12_SelectsFirstQualifying ==
    [][EnsureRuns =>
          LET f == SelectedJar
              listed == api_answers'[Len(api_answers')] = "listed"
          IN /\ \A g \in Filenames \ {f} : mods'[g] = mods[g]
             /\ f = NoFile => requests' = requests
             /\ requests' # requests => requests' = Append(requests, f)
             /\ (f # NoFile /\ mods'[f] # mods[f]) => requests' = Append(requests, f)
             /\ (f # NoFile /\ listed /\ mods[f] = "absent") =>
                    requests' = Append(requests, f)]_vars

(* The first record names the version and the loader but holds no jar; the  *)
(* jar of the second record was requested and written.                      *)
C12_Witness ==
    /\ Len(response) = 2
    /\ Contains(response[1].game_versions, MINECRAFT_VERSION)
    /\ Contains(response[1].loaders, LOADER)
    /\ response[1].files = <<Sources>>
    /\ response[2].files = <<Sources, JarOld>>
    /\ requests = <<JarOld>>
    /\ mods[JarOld] = "artifact"

(* Where a call stands while it is in the drain loop. *)
DrainPcs == {"drain", "drain_read"}

(* The lines child c has written, in the order written. *)
LinesWritten(c) == [i \in 1..written[c] |-> i]

(***************************************************************************)
(* C13: when launch_game has returned after its child wrote some lines and  *)
(* exited, LOG_FILE holds every line the child wrote, in the order written. *)
(***************************************************************************)
C13_AllOutputLogged ==
    \A c \in Calls :
        (pc[c] = "done" /\ result[c] = "ok" /\ child[c].state = "exited") =>
            logf = LinesWritten(c)

(***************************************************************************)
(* C14: the drain loop ends at the first of the two it observes: the loop   *)
(* test that finds the child exited ends it, and a readline that returns    *)
(* '' (the stream is at its end) ends it too, the child alive or not.       *)
(***************************************************************************)
C14_DrainStopsAtEof ==
    [][\A c \in Calls :
         Steps(c) =>
             /\ (pc[c] = "drain" /\ child[c].state = "exited") => pc'[c] \notin DrainPcs
             /\ (pc[c] = "drain_read" /\ pipe[c] = <<>>) => pc'[c] \notin DrainPcs]_vars

(* The steps of the thread that called Popen, while it is in the drain loop. *)
CallerStep(c) == drain_poll(c) \/ drain_read(c)

(***************************************************************************)
(* C15: the thread that launched the child is not held up while the child   *)
(* runs: whenever its child is alive, the launching call has a step to take. *)
(***************************************************************************)
C15_CallerNotBlocked ==
    \A c \in Calls :
        (pc[c] \in DrainPcs /\ child[c].state = "alive") => ENABLED CallerStep(c)

(***************************************************************************)
(* C16: for a config.json object with a non-blank string nickname and an    *)
(* integer ram in range, the launch options hold the nickname load_config   *)
(* returns as username and the ram it returns, in megabytes, as -Xmx.       *)
(***************************************************************************)
C16_OptionsFromConfig ==
    LET loaded == load_config(config_file)
        obj == config_file.obj
    IN (/\ options.built
        /\ config_file.kind = "object"
        /\ obj.nickname.t = "str" /\ Strip(obj.nickname.s) # <<>>
        /\ obj.ram.t = "int" /\ 2 <= obj.ram.n /\ obj.ram.n <= 32
        /\ loaded.state = "returned") =>
           /\ options.username = loaded.value.nickname.s
           /\ options.xmx = loaded.value.ram.n * 1024

(***************************************************************************)
(* C17: a child process is alive only if some install step has succeeded:   *)
(* Popen is not reached when install_fabric and install_minecraft_version   *)
(* have both failed.                                                        *)
(***************************************************************************)
C17_SpawnOnlyAfterInstall ==
    \A c \in Calls : child[c].state = "alive" => fs.installed # {}

(***************************************************************************)
(* C17, as amended: a child process is spawned only by the Popen step, and  *)
(* Popen is reached only after install_fabric and install_minecraft_version *)
(* have each been attempted, in that order, whatever their outcome, and the *)
(* launch command has been built: the Fabric command, or the vanilla one    *)
(* once the vanilla version is installed.                                   *)
(***************************************************************************)
C17_SpawnAfterInstallAttempts ==
    [][\A c \in Calls :
         Steps(c) =>
             /\ (child'[c].state = "alive" /\ child[c].state # "alive") =>
                    pc[c] = "popen" /\ command[c] \in {"fabric", "vanilla"}
             /\ pc'[c] = "popen" =>
                    \/ pc[c] = "cmd" /\ command'[c] = "fabric"
                    \/ /\ pc[c] = "vanilla_cmd"
                       /\ command'[c] = "vanilla"
                       /\ "vanilla" \in fs.installed
             /\ pc'[c] = "cmd" => pc[c] = "mc"
             /\ pc'[c] = "mc" => pc[c] = "fabric"]_vars

(* A child process runs the Fabric command though no install step succeeded. *)
C17_Witness ==
    \E c \in Calls :
        /\ child[c] = [state |-> "alive", argv |-> "fabric"]
        /\ fs.installed = {}

(***************************************************************************)
(* C18: load_config raises nothing and returns a record with every key of   *)
(* the schema, whatever config.json is.                                     *)
(***************************************************************************)
C18_LoadNeverFails ==
    /\ config_data.state # "raised"
    /\ config_data.state = "returned" =>
           DOMAIN config_data.value = DOMAIN DEFAULT_CONFIG

(* ram clamped to [2, 32]. *)
Clamped(ram) ==
    IF ram.n < 2 THEN JInt(2)
    ELSE IF ram.n > 32 \/ (ram.t = "float" /\ ram.n = 32) THEN JInt(32)
    ELSE ram

(***************************************************************************)
(* C19: for a config.json object whose ram is a number, load_config returns *)
(* that number clamped to [2, 32] (999 loads as 32, 1 as 2, a number in     *)
(* range unchanged), and the keys the object does not hold at their         *)
(* defaults.                                                                *)
(***************************************************************************)
C19_RamClamped ==
    (/\ config_data.state = "returned"
     /\ config_file.kind = "object"
     /\ config_file.obj.ram.t \in {"int", "float"}) =>
        /\ config_data.value.ram = Clamped(config_file.obj.ram)
        /\ \A k \in DOMAIN DEFAULT_CONFIG \ {"ram"} :
               config_file.obj[k] = Absent => config_data.value[k] = DEFAULT_CONFIG[k]

(* The value x is one the schema takes for key k. *)
ValidInFile(k, x) ==
    CASE k = "ram" -> x.t \in {"int", "float"} /\ InRange(x, 2, 32)
      [] k = "nickname" -> x.t = "str" /\ \E i \in DOMAIN x.s : x.s[i] \notin Whitespace
      [] k \in {"skin", "theme", "java_path"} -> x.t = "str"
      [] k = "auto_update" -> x.t = "bool"
      [] k \in {"window_width", "window_height"} -> x.t \in {"int", "float"}

(***************************************************************************)
(* C20: for every config.json object, load_config returns, and returns for  *)
(* each key of the schema the value of the file when that value is valid    *)
(* and the default of that key when it is absent, wrong-typed or invalid,   *)
(* whatever the other keys hold; keys outside the schema are not returned.  *)
(***************************************************************************)
C20_PerFieldValidation ==
    (config_data.state # "unread" /\ config_file.kind = "object") =>
        /\ config_data.state = "returned"
        /\ DOMAIN config_data.value = DOMAIN DEFAULT_CONFIG
        /\ \A k \in DOMAIN DEFAULT_CONFIG :
               config_data.value[k] =
                   IF ValidInFile(k, config_file.obj[k]) THEN config_file.obj[k]
                   ELSE DEFAULT_CONFIG[k]

(* The keys of the schema whose values are strings. *)
StringKeys == {"nickname", "skin", "theme", "java_path"}

(***************************************************************************)
(* C21: for each of nickname, skin, theme and java_path, when config.json   *)
(* holds a string for the key, load_config returns that string if it is not *)
(* empty and the key's default if it is empty.                              *)
(***************************************************************************)
C21_EmptyStringsDefaulted ==
    (config_data.state = "returned" /\ config_file.kind = "object") =>
        \A k \in StringKeys :
            config_file.obj[k].t = "str" =>
                config_data.value[k] =
                    IF config_file.obj[k].s = <<>> THEN DEFAULT_CONFIG[k]
                    ELSE config_file.obj[k]

OtherKeys == DOMAIN DEFAULT_CONFIG \ {"ram", "skin", "nickname"}

(* C28: a save through the legacy save_config(config_path, ram, skin,       *)
(* nickname) changes only ram, skin and nickname in the stored config:      *)
(* after such a save has written the file, theme, java_path, auto_update,   *)
(* window_width and window_height hold the values the file held before.     *)
C28_LegacySaveKeepsOtherKeys ==
    (/\ saved.state = "done"
     /\ saved.result = "True"
     /\ saved.before.kind = "object"
     /\ \A k \in OtherKeys : saved.config[k] = Absent) =>
        \A k \in OtherKeys :
            IsInstanceOfDefault(saved.before.obj[k], DEFAULT_CONFIG[k]) =>
                config_file.obj[k] = saved.before.obj[k]

(* C29: round trip. For every config c that load_config returned,           *)
(* save_config(path, c) succeeds and the load_config that follows returns   *)
(* exactly c.                                                               *)
C29_RoundTrip ==
    (/\ saved.state = "done"
     /\ \A k \in OtherKeys : saved.config[k] # Absent) =>
        /\ (saved.disk.mkdir = "ok" /\ saved.disk.write = "ok") =>
               saved.result = "True"
        /\ (saved.result = "True" /\ config_data.state # "unread") =>
               config_data = Returned(saved.config)

(***************************************************************************)
(* C23: is_game_running and game_process are written only while game_lock   *)
(* is held: every step that changes either global of a launcher process is  *)
(* a step of a launch_game call that holds that process's game_lock.        *)
(***************************************************************************)
C23_SessionStateUnderLock ==
    [][\A p \in Calls :
          (is_game_running'[p] # is_game_running[p]
           \/ game_process'[p] # game_process[p]) =>
              \E c \in Calls : Steps(c) /\ P(c) = p /\ game_lock[p] = c]_vars

(***************************************************************************)
(* C26: in every reachable state of one launcher process, is_game_running   *)
(* is true and game_process is set whenever a game child process spawned by *)
(* launch_game in that process is alive.                                    *)
(***************************************************************************)
C26_FlagCoversLiveChild ==
    \A c \in AliveChildren : is_game_running[P(c)] /\ game_process[P(c)] # None

(***************************************************************************)
(* C27: whenever a jar is in minecraft/mods after any sequence of           *)
(* ensure_customskinloader runs, it holds the artifact of a successful      *)
(* download: no file there holds the body of an HTTP error answer.          *)
(***************************************************************************)
C27_JarIsSuccessfulDownload ==
    \A f \in Filenames : EndsWithJar(f) => mods[f] \in {"absent", "artifact"}

(* The places of a launch_game call before line 230. *)
BeforeResolve == {"idle", "gate", "gate_locked", "skin", "resolve"}

(***************************************************************************)
(* C24: one attempt against the remote registry per resolution, and one     *)
(* resolution per launch. A launch_game call has queried the registry at    *)
(* most once; once it is past line 230 it has queried it exactly once, and  *)
(* when that query failed with a caught error its loader version is the     *)
(* first fallback version.                                                  *)
(***************************************************************************)
C24_OneRemoteAttempt ==
    \A c \in Calls :
        /\ remote_calls[c] <= 1
        /\ pc[c] \in BeforeResolve => remote_calls[c] = 0
        /\ (pc[c] \notin BeforeResolve /\ result[c] # "busy") => remote_calls[c] = 1
        /\ (fabric_loader[c] # "" /\ ~registry.ok) =>
               fabric_loader[c] = FALLBACK_FABRIC_VERSIONS[1]

(* A call past line 230 that holds the fallback version after one failed query. *)
C24_Witness ==
    \E c \in Calls :
        /\ ~registry.ok
        /\ remote_calls[c] = 1
        /\ pc[c] = "fabric"
        /\ fabric_loader[c] = FALLBACK_FABRIC_VERSIONS[1]

(***************************************************************************)
(* C25: liveness. Under fair scheduling, with every external call returning *)
(* and every spawned child exiting in the end, each launch_game call that   *)
(* entered Starting (it passed the gate) returns, and at its return its     *)
(* launcher process is Idle with game_lock free; and a call that reaches    *)
(* the gate of an Idle process is accepted, not answered Busy.              *)
(***************************************************************************)
C25_StartingReturnsToIdle ==
    /\ \A c \in 1..MaxCalls :
           (pc[c] = "skin") ~>
               (pc[c] = "done" /\ Idle(P(c)) /\ game_lock[P(c)] = None)
    /\ [][\A c \in Calls :
             (pc[c] = "gate_locked" /\ Steps(c) /\ Idle(P(c))) =>
                 pc'[c] = "skin"]_vars

(* A call was accepted after the owner before it returned with its child exited. *)
C25_Witness ==
    \E c \in Calls, d \in Calls :
        /\ pc[c] = "done" /\ result[c] = "ok" /\ child[c].state = "exited"
        /\ d # c /\ P(d) = P(c)
        /\ pc[d] = "skin"

(***************************************************************************)
(* C30: for every outcome of the initialization steps, the result that      *)
(* LauncherInitializer.initialize returns has success true if and only if   *)
(* its errors list is empty.                                                *)
(***************************************************************************)
C30_SuccessIffNoErrors ==
    init_result.state = "returned" =>
        (init_result.success <=> init_result.errors = <<>>)

====
